---- MODULE Spec2Model ----
(***************************************************************************)
(* A model of pati's dispatchers (lib/dispatcher.js, kept here as          *)
(* src/unnamed/part_000 lines 150-448): the cancellable Dispatcher, the    *)
(* TimeoutDispatcher and the EventDispatcher built on it, and the          *)
(* composition operators chain, short and adopt.                           *)
(*                                                                         *)
(* JavaScript promises are modelled by what they do: a promise is settled  *)
(* by the first resolve/reject call, the reactions registered with then()  *)
(* are queued as microtasks in registration order when it settles (or at   *)
(* once when it is already settled), and the microtask queue runs first    *)
(* in, first out.  Calls made by the program's user (end, cancel, on,      *)
(* emit, finish, ...) may happen between any two microtasks; a timer       *)
(* callback runs only when the microtask queue is empty.                   *)
(*                                                                         *)
(* Values passed to end() are plain values, never thenables.               *)
(***************************************************************************)
EXTENDS Naturals, Sequences, FiniteSets

\* ------------------------------------------------------------------ bounds

MaxListeners == 2       \* on() registrations accepted by the model
MaxInFlight == 2        \* handler invocations in flight at once
MaxFinish == 2          \* finish() calls
MaxCompose == 1         \* chain() calls, short() calls and adopt() calls, each

\* ------------------------------------------------------------- value sets

Values == {"a", "b"}                 \* results, errors and event payloads
Undefined == "undefined"
NoResult == "noResult"               \* internals.noResult
Null == "null"
EventNames == {"data", "end", "error"}
Sentinels == {"EventDispatcher.error", "EventDispatcher.end"}
UserHandlers == {"throw", "async"}
        \* throw: a function that throws its argument synchronously;
        \* async: a function that returns a promise, settled later by HandlerSettle
        \* (a function returning a plain value behaves as one whose promise is
        \* fulfilled at once)
NotAFunction == "notAFunction"
DefaultOptions == [cleanup |-> FALSE, keepErrorListener |-> FALSE]

ED == "d"                            \* the dispatcher under study
OD == "o"                            \* a second dispatcher (adopt's argument)
Cores == {ED, OD}
Future == "fut"                      \* the promise given to chain() and short()
PromiseIds == Cores \cup {Future}

Pending == [state |-> "pending", value |-> Undefined]
NoCall == [state |-> "none", value |-> Undefined, inflight |-> 0, later |-> FALSE]
NoThrow == [op |-> "none", error |-> "none"]
NoTimer == [timeout |-> FALSE, scheduled |-> FALSE, fired |-> FALSE,
            result |-> [error |-> FALSE, value |-> Undefined]]
Reaction(k, c, i) == [k |-> k, c |-> c, i |-> i]
Job(r, st, v) == [r |-> r, state |-> st, value |-> v]

VARIABLES
    kind,             \* the class of each core: Dispatcher, TimeoutDispatcher,
                      \* EventDispatcher, or none (absent)
    options,          \* the EventDispatcher's construction options
    promise,          \* state and value of every promise (a core's deferred.promise, ...)
    reactions,        \* then() callbacks registered on a pending promise, in order
    microtasks,       \* the microtask queue
    cleanupCalls,     \* how often each core's cleanupFn has been invoked
    userCleanupCalls, \* how often options.cleanup has been invoked
    finish,           \* the promise each finish() call returned, in call order
    shorts,           \* the promise each short() call returned, in call order
    threw,            \* what the most recent call raised synchronously, if anything
    source,           \* this.source is set (not null)
    events,           \* this._events: [null, list]
    processing,       \* this.processing
    endResult,        \* this._endResult
    errArmed,         \* this.removeErrorListener still removes the error listener
    listeners,        \* the source's listeners, in registration order
    awaiting,         \* handler promises not yet settled
    calls,            \* chain() and adopt() calls made so far
    timer,            \* the TimeoutDispatcher's timeout handle, its timer and its result
    hist              \* history: first calls and requests, for stating the properties

vars == <<kind, options, promise, reactions, microtasks, cleanupCalls, userCleanupCalls,
          finish, shorts, threw, source, events, processing, endResult, errArmed, listeners,
          awaiting, calls, timer, hist>>

Cur == [kind |-> kind, options |-> options, promise |-> promise, reactions |-> reactions,
        microtasks |-> microtasks, cleanupCalls |-> cleanupCalls,
        userCleanupCalls |-> userCleanupCalls, finish |-> finish,
        shorts |-> shorts, threw |-> threw,
        source |-> source, events |-> events, processing |-> processing,
        endResult |-> endResult, errArmed |-> errArmed, listeners |-> listeners,
        awaiting |-> awaiting, calls |-> calls, timer |-> timer, hist |-> hist]

Commit(s) ==
    /\ kind' = s.kind
    /\ options' = s.options
    /\ promise' = s.promise
    /\ reactions' = s.reactions
    /\ microtasks' = s.microtasks
    /\ cleanupCalls' = s.cleanupCalls
    /\ userCleanupCalls' = s.userCleanupCalls
    /\ finish' = s.finish
    /\ shorts' = s.shorts
    /\ threw' = s.threw
    /\ source' = s.source
    /\ events' = s.events
    /\ processing' = s.processing
    /\ endResult' = s.endResult
    /\ errArmed' = s.errArmed
    /\ listeners' = s.listeners
    /\ awaiting' = s.awaiting
    /\ calls' = s.calls
    /\ timer' = s.timer
    /\ hist' = s.hist

\* ---------------------------------------------------------------- promises

\* The resolve / reject function of a promise: the first call settles it and
\* queues its reactions; every later call does nothing.
SettlePromiseOverwrite(s, p, st, v) ==
    [s EXCEPT !.promise[p] = [state |-> st, value |-> v],
              !.microtasks = @ \o [i \in 1..Len(s.reactions[p]) |->
                                      Job(s.reactions[p][i], st, v)],
              !.reactions[p] = <<>>]

SettlePromise(s, p, st, v) ==
    IF s.promise[p].state # "pending" THEN s
    ELSE [s EXCEPT !.promise[p] = [state |-> st, value |-> v],
                   !.microtasks = @ \o [i \in 1..Len(s.reactions[p]) |->
                                           Job(s.reactions[p][i], st, v)],
                   !.reactions[p] = <<>>]

\* promise.then(onFulfilled, onRejected), both callbacks being reaction r
Then(s, p, r) ==
    IF s.promise[p].state = "pending"
    THEN [s EXCEPT !.reactions[p] = Append(@, r)]
    ELSE [s EXCEPT !.microtasks = Append(@, Job(r, s.promise[p].state, s.promise[p].value))]

\* ----------------------------------------------------------------- history

\* For each short() call made while the core and the promise were pending,
\* which of the two settled first after it.
Won(s, who) == [i \in 1..Len(s.hist.won) |-> IF s.hist.won[i] = "open" THEN who ELSE s.hist.won[i]]

\* The first resolve / reject call made on core c's deferred (for a resolve
\* call, with the number of handlers in flight when it was made), and whether
\* a later call followed it; lead: the second dispatcher's first call was made
\* after adopt() had joined the two and while the dispatcher under study was
\* pending.
NoteCall(s, c, st, v) ==
    IF s.hist.first[c].state # "none" THEN [s EXCEPT !.hist.first[c].later = TRUE]
    ELSE [s EXCEPT !.hist.first[c] = [state |-> st, value |-> v,
                                      inflight |-> IF st = "fulfilled" THEN s.processing ELSE 0,
                                      later |-> FALSE],
                   !.hist.won = IF c = ED THEN Won(s, "core") ELSE @,
                   !.hist.lead = @ \/ (c = OD /\ s.hist.adopt # "none"
                                        /\ s.promise[ED].state = "pending")]

\* That end() has been called on the EventDispatcher, and the first end(v)
\* request made on it while it is pending and handlers are in flight: the
\* request that has to be deferred.
NoteEnd(s, c, v) ==
    LET s1 == [s EXCEPT !.hist.ended = TRUE]
    IN  IF c = ED /\ s.promise[ED].state = "pending" /\ s.processing > 0
           /\ ~s.hist.deferredEnd.made
        THEN [s1 EXCEPT !.hist.deferredEnd = [made |-> TRUE, value |-> v]] ELSE s1

\* The first end(v) call made after a deferred end request for another
\* result, while the dispatcher is pending and handlers are still in flight
NoteLaterEnd(s, c, v) ==
    IF c = ED /\ s.hist.deferredEnd.made /\ s.hist.deferredEnd.value # v
       /\ s.promise[ED].state = "pending" /\ s.processing > 0 /\ ~s.hist.laterEnd.made
    THEN [s EXCEPT !.hist.laterEnd = [made |-> TRUE, value |-> v]] ELSE s

\* The first cancel(e) call made on the pending dispatcher under study while
\* handlers are in flight, and whether an end request was pending then.
NoteCancel(s, c, e) ==
    IF c = ED /\ s.promise[ED].state = "pending" /\ s.processing > 0 /\ ~s.hist.cancelInFlight.made
    THEN [s EXCEPT !.hist.cancelInFlight =
                      [made |-> TRUE, value |-> e, endPending |-> s.hist.deferredEnd.made]]
    ELSE s

\* The first handler failure delivered to onEvent while the dispatcher is
\* pending, whether an end request was pending then, and whether other
\* handlers were in flight.
NoteFail(s, st, e) ==
    IF st = "rejected" /\ s.promise[ED].state = "pending" /\ ~s.hist.fail.made
    THEN [s EXCEPT !.hist.fail = [made |-> TRUE, value |-> e,
                                  endPending |-> s.hist.deferredEnd.made,
                                  others |-> s.processing > 1]]
    ELSE s

\* Whether core c was pending when the first end / cancel call bridged to it
\* by chain() or adopt() was made
NoteBridge(s, c) ==
    IF s.hist.bridged[c] # "none" THEN s
    ELSE [s EXCEPT !.hist.bridged[c] =
                      IF s.promise[c].state = "pending" THEN "pending" ELSE "settled"]

\* --------------------------------------------------------------- Dispatcher

\* deferred.resolve(v) and deferred.reject(e) of core c
DeferredResolve(s, c, v) == SettlePromise(NoteCall(s, c, "fulfilled", v), c, "fulfilled", v)
DeferredReject(s, c, e) == SettlePromise(NoteCall(s, c, "rejected", e), c, "rejected", e)

\* Dispatcher.end(result)
DispatcherEnd(s, c, result) == DeferredResolve(s, c, result)

\* Dispatcher.cancel(err)
DispatcherCancelGated(s, c, err) ==
    IF s.processing = 0 THEN DeferredReject(s, c, err) ELSE s

DispatcherCancel(s, c, err) == DeferredReject(s, c, err)

\* -------------------------------------------------------- TimeoutDispatcher

\* The first end(x) or cancel(e) call made before the timer has expired
NoteEarly(s, op, arg) ==
    IF ~s.timer.fired /\ ~s.hist.early.made
    THEN [s EXCEPT !.hist.early = [made |-> TRUE, op |-> op, arg |-> arg]] ELSE s

\* The timer's expiry: whether adopt() had been called before it, and whether
\* the second dispatcher was pending then
NoteExpiry(s) ==
    IF s.hist.expiry.made THEN s
    ELSE [s EXCEPT !.hist.expiry = [made |-> TRUE, adopted |-> s.hist.adopt # "none",
                                    otherPending |-> s.promise[OD].state = "pending"]]

\* TimeoutDispatcher.end(): super.end(), whatever the argument
TimeoutDispatcherEnd(s, c, result) == DispatcherEnd(s, c, Undefined)

\* TimeoutDispatcher.cancel(): super.end(), whatever the argument
TimeoutDispatcherCancelFails(s, c, err) == DispatcherCancel(s, c, err)

TimeoutDispatcherCancel(s, c, err) == DispatcherEnd(s, c, Undefined)

\* onTimeout, the timer's callback
OnTimeoutEnds(s) ==
    DispatcherEnd([s EXCEPT !.timer.timeout = FALSE, !.timer.scheduled = FALSE,
                            !.timer.fired = TRUE], ED, s.timer.result.value)

OnTimeout(s) ==
    LET s1 == [s EXCEPT !.timer.timeout = FALSE, !.timer.scheduled = FALSE,
                        !.timer.fired = TRUE]
    IN  IF s.timer.result.error
        THEN DispatcherCancel(s1, ED, s.timer.result.value)
        ELSE DispatcherEnd(s1, ED, s.timer.result.value)

\* cleanup, the TimeoutDispatcher's cleanupFn: clearTimeout(timeout)
TimeoutCleanup(s) ==
    IF s.timer.timeout
    THEN [s EXCEPT !.timer.timeout = FALSE, !.timer.scheduled = FALSE]
    ELSE s

\* ---------------------------------------------------------- EventDispatcher

IsTracked(s, l) == \E i \in 1..Len(s.events.list) : s.events.list[i] = l

\* EventDispatcher.removeListeners()
RemoveListenersOfEvents(s) ==
    IF s.source
    THEN [s EXCEPT !.listeners =
                      SelectSeq(@, LAMBDA l : ~\E i \in 1..Len(s.events.list) :
                                                   s.events.list[i].event = l.event),
                   !.events = [null |-> TRUE, list |-> <<>>],
                   !.source = FALSE]
    ELSE s

RemoveListeners(s) ==
    IF s.source
    THEN [s EXCEPT !.listeners = SelectSeq(@, LAMBDA l : ~IsTracked(s, l)),
                   !.events = [null |-> TRUE, list |-> <<>>],
                   !.source = FALSE]
    ELSE s

\* A cancel() that would also remove the listeners at once
CallCancelTearingDown(s, c, e) ==
    RemoveListeners(DispatcherCancel(NoteCancel(s, c, e), c, e))

\* EventDispatcher.checkFinish(result)
CheckFinishUngated(s, result) ==
    LET r == IF s.endResult # NoResult THEN s.endResult ELSE result
    IN  IF r # NoResult THEN [DispatcherEnd(s, ED, r) EXCEPT !.endResult = Null] ELSE s

CheckFinishForgetful(s, result) ==
    IF result # NoResult
    THEN IF s.processing = 0
         THEN [DispatcherEnd(s, ED, result) EXCEPT !.endResult = Null]
         ELSE [s EXCEPT !.endResult = NoResult]
    ELSE s

CheckFinishLastWins(s, result) ==
    LET r == IF result # NoResult THEN result ELSE s.endResult
    IN  IF r # NoResult
        THEN IF s.processing = 0
             THEN [DispatcherEnd(s, ED, r) EXCEPT !.endResult = Null]
             ELSE [s EXCEPT !.endResult = r]
        ELSE s

CheckFinish(s, result) ==
    LET r == IF s.endResult # NoResult THEN s.endResult ELSE result
    IN  IF r # NoResult
        THEN IF s.processing = 0
             THEN [DispatcherEnd(s, ED, r) EXCEPT !.endResult = Null]
             ELSE [s EXCEPT !.endResult = r]
        ELSE s

\* EventDispatcher.end(result); neither call in its try block raises here
EventDispatcherEndLazy(s, result) == CheckFinish(s, result)

EventDispatcherEnd(s, result) == CheckFinish(RemoveListeners(s), result)

\* EventDispatcher.end(result) when a call in its try block raises err:
\* removeListeners() raises at its first source.removeListener call, so only
\* with a source and a tracked listener, and leaves both fields as they are;
\* checkFinish() raises when entered.  The catch block rejects the deferred.
InternalFaults == {"removeListeners", "checkFinish"}

EventDispatcherEndRaisingLost(s, result, where, err) ==
    IF where = "removeListeners"
    THEN IF s.source /\ s.events.list # <<>> THEN s
         ELSE CheckFinish(RemoveListeners(s), result)
    ELSE RemoveListeners(s)

EventDispatcherEndRaising(s, result, where, err) ==
    IF where = "removeListeners"
    THEN IF s.source /\ s.events.list # <<>>
         THEN DeferredReject(s, ED, err)
         ELSE CheckFinish(RemoveListeners(s), result)
    ELSE DeferredReject(RemoveListeners(s), ED, err)

\* The first exception raised inside end() while the dispatcher is pending
NoteInternal(s, where, err) ==
    IF s.promise[ED].state = "pending" /\ ~s.hist.internal.made
       /\ (where = "removeListeners" => s.source /\ s.events.list # <<>>)
    THEN [s EXCEPT !.hist.internal = [made |-> TRUE, where |-> where, value |-> err]]
    ELSE s

\* end() and cancel() as dispatched on the class of core c
CallEnd(s, c, v) ==
    CASE s.kind[c] = "EventDispatcher" -> EventDispatcherEnd(NoteEnd(s, c, v), v)
      [] s.kind[c] = "TimeoutDispatcher" -> TimeoutDispatcherEnd(NoteEarly(s, "end", v), c, v)
      [] OTHER -> DispatcherEnd(s, c, v)

\* cancel() as a TimeoutDispatcher would inherit it from Dispatcher
CallCancelInherited(s, c, e) ==
    IF s.kind[c] = "TimeoutDispatcher"
    THEN DispatcherCancel(NoteEarly(s, "cancel", e), c, e)
    ELSE DispatcherCancel(NoteCancel(s, c, e), c, e)

CallCancel(s, c, e) ==
    IF s.kind[c] = "TimeoutDispatcher"
    THEN TimeoutDispatcherCancel(NoteEarly(s, "cancel", e), c, e)
    ELSE DispatcherCancel(NoteCancel(s, c, e), c, e)

\* onEvent's finally and catch blocks, run when the handler call has settled
OnEventSettledSwallow(s, st, v) ==
    CheckFinish([s EXCEPT !.processing = @ - 1], NoResult)

OnEventSettledLeaky(s, st, v) ==
    IF st = "rejected" THEN DeferredReject(s, ED, v)
    ELSE CheckFinish([s EXCEPT !.processing = @ - 1], NoResult)

OnEventSettledNoCheck(s, st, v) ==
    LET s1 == [s EXCEPT !.processing = @ - 1]
    IN  IF st = "rejected" THEN DeferredReject(s1, ED, v) ELSE s1

OnEventSettled(s, st, v) ==
    LET s1 == CheckFinish([s EXCEPT !.processing = @ - 1], NoResult)
    IN  IF st = "rejected" THEN DeferredReject(s1, ED, v) ELSE s1

HandlerDone(s, st, v) == OnEventSettled(NoteFail(s, st, v), st, v)

\* EventDispatcher.onEvent(handler, ...args), up to its first suspension
OnEvent(s, handler, arg) ==
    LET s1 == [s EXCEPT !.processing = @ + 1]
    IN  IF handler = "throw"
        THEN HandlerDone(s1, "rejected", arg)
        ELSE [s1 EXCEPT !.awaiting = @ + 1]

\* One listener of the source called with the event's payload
InvokeDeaf(s, l, arg) ==
    CASE l.fn = "cancel" -> CallCancel(s, ED, arg)
      [] l.fn = "end" -> CallEnd(s, ED, arg)
      [] l.fn \in UserHandlers -> OnEvent(s, l.fn, arg)
      [] OTHER -> s

InvokeCounted(s, l, arg) ==
    CASE l.fn \in {"errorListener", "cancel"} -> CallCancel(s, ED, arg)
      [] l.fn = "end" -> OnEvent(CallEnd(s, ED, arg), "async", arg)
      [] l.fn \in UserHandlers -> OnEvent(s, l.fn, arg)
      [] OTHER -> s

Invoke(s, l, arg) ==
    CASE l.fn \in {"errorListener", "cancel"} -> CallCancel(s, ED, arg)
      [] l.fn = "end" -> CallEnd(s, ED, arg)
      [] l.fn \in UserHandlers -> OnEvent(s, l.fn, arg)
      [] OTHER -> s

\* source.emit(event, arg): the listeners registered when emit is called are
\* called in registration order
RECURSIVE Deliver(_, _, _)
Deliver(s, ls, arg) ==
    IF ls = <<>> THEN s ELSE Deliver(Invoke(s, Head(ls), arg), Tail(ls), arg)

ListenersOf(s, event) == SelectSeq(s.listeners, LAMBDA l : l.event = event)

\* The handlers the dispatcher would start for an event
Starts(s, event) == Len(SelectSeq(ListenersOf(s, event), LAMBDA l : l.fn \in UserHandlers))

\* The state after source.emit(event, arg) has returned
Emitted(s, event, arg) == Deliver(s, ListenersOf(s, event), arg)

\* What one emit did, from the states before and after it:
\*  lateCall: it came after end() had returned and still called a listener
\*    registered through on(), or changed processing;
\*  errorEvent: the first error event emitted while the dispatcher was pending;
\*  sentinel: the first event emitted while the dispatcher was pending whose
\*    first listener is a sentinel registration (only: every listener of the
\*    event is one; first: no end request had been made before; moved:
\*    processing changed);
\*  window: the first emit made after the dispatcher was failed, before its
\*    cleanup had run and with end() never called, of an event for which on()
\*    had registered handlers (handlers: how many; started: by how much
\*    processing went up).
NoteEmit(before, after, event, arg) ==
    LET ls == ListenersOf(before, event)
        wasPending == before.promise[ED].state = "pending"
        registered == SelectSeq(before.events.list,
                                LAMBDA l : l.event = event /\ l.fn \in UserHandlers)
    IN  [after EXCEPT
            !.hist.window =
                IF before.promise[ED].state = "rejected" /\ before.cleanupCalls[ED] = 0
                   /\ ~before.hist.ended /\ registered # <<>> /\ ~@.made
                THEN [made |-> TRUE, value |-> before.promise[ED].value,
                      handlers |-> Len(registered),
                      started |-> after.processing - before.processing]
                ELSE @,
            !.hist.lateCall = @ \/ (before.hist.ended
                                     /\ \/ \E i \in 1..Len(ls) : ls[i].n > 0
                                        \/ after.processing # before.processing),
            !.hist.errorEvent =
                IF event = "error" /\ wasPending /\ ~@.made
                THEN [made |-> TRUE, value |-> arg, inflight |-> before.processing]
                ELSE @,
            !.hist.sentinel =
                IF Head(ls).fn \in {"end", "cancel"} /\ wasPending /\ ~@.made
                THEN [made |-> TRUE, fn |-> Head(ls).fn, value |-> arg,
                      inflight |-> before.processing,
                      first |-> before.endResult = NoResult,
                      only |-> \A i \in 1..Len(ls) : ls[i].fn \notin UserHandlers,
                      moved |-> after.processing # before.processing]
                ELSE @]

\* ---------------------------------------------------------------- cleanup

\* The outcomes on which the constructor's then(cleanupFn, cleanupFn) calls cleanupFn
CleanupPathsSuccessOnly == {"fulfilled"}

CleanupPaths == {"fulfilled", "rejected"}

\* The cleanupFn of core c: the user's function for a Dispatcher, the cleanup
\* closure of the constructor for an EventDispatcher and a TimeoutDispatcher
CleanupFnNoUser(s, c) ==
    LET s1 == [s EXCEPT !.cleanupCalls[c] = @ + 1]
    IN  IF s.kind[c] = "EventDispatcher" THEN RemoveListeners(s1) ELSE s1

CleanupFnNoTeardown(s, c) ==
    [s EXCEPT !.cleanupCalls[c] = @ + 1,
              !.userCleanupCalls = IF s.kind[c] = "EventDispatcher" /\ s.options.cleanup
                                   THEN @ + 1 ELSE @]

CleanupFn(s, c) ==
    LET s1 == [s EXCEPT !.cleanupCalls[c] = @ + 1]
    IN  CASE s.kind[c] = "EventDispatcher" ->
                [RemoveListeners(s1) EXCEPT
                    !.userCleanupCalls = IF s.options.cleanup THEN @ + 1 ELSE @]
          [] s.kind[c] = "TimeoutDispatcher" -> TimeoutCleanup(s1)
          [] OTHER -> s1

\* The error listener's remover, this.removeErrorListener(); the history
\* counts its calls of source.removeListener('error', errorListener)
RemoveErrorListenerRepeated(s) ==
    [s EXCEPT !.listeners = SelectSeq(@, LAMBDA l : l.fn # "errorListener"),
              !.hist.errRemovals = @ + 1]

RemoveErrorListener(s) ==
    IF s.errArmed
    THEN [s EXCEPT !.errArmed = FALSE,
                   !.listeners = SelectSeq(@, LAMBDA l : l.fn # "errorListener"),
                   !.hist.errRemovals = @ + 1]
    ELSE s

\* The outcome a finish() call's promise shows to its caller
FinishOutcome(i) ==
    IF finish[i].state = "deferred" THEN promise[ED]
    ELSE [state |-> finish[i].state, value |-> finish[i].value]

\* ------------------------------------------------------------------- calls

Returned(s) == Commit([s EXCEPT !.threw = NoThrow])
Raised(s, op, error) == Commit([s EXCEPT !.threw = [op |-> op, error |-> error]])

\* c.end(v), called by the user
End(c, v) ==
    /\ kind[c] # "none"
    /\ Returned(CallEnd(Cur, c, v))

\* ED.end(v), called by the user, during which where raises err
EndRaising(v, where, err) ==
    /\ kind[ED] = "EventDispatcher"
    /\ Returned(EventDispatcherEndRaising(NoteInternal(NoteEnd(Cur, ED, v), where, err),
                                          v, where, err))

\* ED.end(v), called by the user, with a later request recorded
EndObserved(v) ==
    /\ kind[ED] = "EventDispatcher"
    /\ Returned(CallEnd(NoteLaterEnd(Cur, ED, v), ED, v))

\* c.cancel(e), called by the user
Cancel(c, e) ==
    /\ kind[c] # "none"
    /\ Returned(CallCancel(Cur, c, e))

\* EventDispatcher.on(event, handler)
On(event, handler) ==
    /\ kind[ED] = "EventDispatcher"
    /\ Len(events.list) < MaxListeners
    /\ IF handler = NotAFunction
       THEN Raised(Cur, "on", "TypeError: handler")
       ELSE IF ~source
       THEN Raised(Cur, "on", "TypeError: source")
       ELSE LET fn == CASE handler = "EventDispatcher.error" -> "cancel"
                        [] handler = "EventDispatcher.end" -> "end"
                        [] OTHER -> handler
                l == [event |-> event, fn |-> fn, n |-> Len(events.list) + 1]
            IN  Returned([Cur EXCEPT !.listeners = Append(@, l),
                                     !.events.list = Append(@, l)])

\* source.on(event, listener), called by another party with a listener of its
\* own; the history lists the events of these registrations, in order
ForeignListeners(ls) == SelectSeq(ls, LAMBDA l : l.fn = "foreign")

ForeignOn(event) ==
    /\ kind[ED] = "EventDispatcher"
    /\ Len(hist.foreign) < MaxListeners
    /\ Returned([Cur EXCEPT !.listeners = Append(@, [event |-> event, fn |-> "foreign", n |-> 0]),
                            !.hist.foreign = Append(@, event)])

\* source.emit(event, arg), called by whoever owns the source
CanEmit(event) ==
    /\ kind[ED] = "EventDispatcher"
    /\ ListenersOf(Cur, event) # <<>>
    /\ processing + Starts(Cur, event) <= MaxInFlight

Emit(event, arg) ==
    /\ CanEmit(event)
    /\ Returned(Emitted(Cur, event, arg))

\* The same call, with what it did recorded
EmitObserved(event, arg) ==
    /\ CanEmit(event)
    /\ Returned(NoteEmit(Cur, Emitted(Cur, event, arg), event, arg))

\* The promise an async handler returned settles
HandlerSettle(st, v) ==
    /\ awaiting > 0
    /\ Commit([Cur EXCEPT !.awaiting = @ - 1,
                          !.microtasks = Append(@, Job(Reaction("onEvent", ED, 0), st, v))])

\* finish(): Dispatcher.finish returns deferred.promise; EventDispatcher.finish
\* is an async function that awaits it.  early: the call was made while the
\* core was pending.
Called(st) == [state |-> st, value |-> Undefined, early |-> promise[ED].state = "pending"]

Finish ==
    /\ kind[ED] # "none"
    /\ Len(finish) < MaxFinish
    /\ IF kind[ED] = "EventDispatcher"
       THEN Returned(Then([Cur EXCEPT !.finish = Append(@, Called("pending"))], ED,
                          Reaction("finish", ED, Len(finish) + 1)))
       ELSE Returned([Cur EXCEPT !.finish = Append(@, Called("deferred"))])

\* ED.chain(promise)
Chain ==
    /\ kind[ED] # "none"
    /\ calls.chain < MaxCompose
    /\ Returned(Then([Cur EXCEPT !.calls.chain = @ + 1], Future, Reaction("bridge", ED, 0)))

\* ED.short(promise): Promise.race([promise, this.deferred.promise])
Short ==
    /\ kind[ED] # "none"
    /\ Len(shorts) < MaxCompose
    /\ LET i == Len(shorts) + 1
           s1 == [Cur EXCEPT !.shorts = Append(@, Pending),
                             !.hist.won = Append(@, IF promise[ED].state = "pending"
                                                       /\ promise[Future].state = "pending"
                                                    THEN "open" ELSE "late")]
       IN  Returned(Then(Then(s1, Future, Reaction("race", ED, i)), ED, Reaction("race", ED, i)))

\* ED.adopt(OD)
Adopt ==
    /\ kind[ED] # "none" /\ kind[OD] # "none"
    /\ calls.adopt < MaxCompose
    /\ LET s1 == [Cur EXCEPT !.calls.adopt = @ + 1,
                             !.hist.adopt = IF @ # "none" THEN @
                                            ELSE IF promise[ED].state = "pending"
                                                    /\ promise[OD].state = "pending"
                                                 THEN "pending" ELSE "late"]
       IN  Returned(Then(Then(s1, OD, Reaction("bridge", ED, 0)), ED, Reaction("bridge", OD, 0)))

\* OD.adopt(ED)
AdoptedByOneWay ==
    /\ kind[ED] # "none" /\ kind[OD] # "none"
    /\ calls.adopt < MaxCompose
    /\ LET s1 == [Cur EXCEPT !.calls.adopt = @ + 1,
                             !.hist.adopt = IF @ # "none" THEN @
                                            ELSE IF promise[ED].state = "pending"
                                                    /\ promise[OD].state = "pending"
                                                 THEN "pending" ELSE "late"]
       IN  Returned(Then(s1, OD, Reaction("bridge", ED, 0)))

AdoptedBy ==
    /\ kind[ED] # "none" /\ kind[OD] # "none"
    /\ calls.adopt < MaxCompose
    /\ LET s1 == [Cur EXCEPT !.calls.adopt = @ + 1,
                             !.hist.adopt = IF @ # "none" THEN @
                                            ELSE IF promise[ED].state = "pending"
                                                    /\ promise[OD].state = "pending"
                                                 THEN "pending" ELSE "late"]
       IN  Returned(Then(Then(s1, ED, Reaction("bridge", OD, 0)), OD, Reaction("bridge", ED, 0)))

\* The TimeoutDispatcher's timer expires: a timer callback runs when no
\* microtask is left
TimerExpire ==
    /\ kind[ED] = "TimeoutDispatcher"
    /\ timer.scheduled
    /\ microtasks = <<>>
    /\ Returned(OnTimeout(NoteExpiry(Cur)))

\* The promise given to chain() and short() settles
FutureSettle(st, v) ==
    /\ promise[Future].state = "pending"
    /\ Commit([SettlePromise(Cur, Future, st, v) EXCEPT !.hist.won = Won(Cur, "fut")])

\* -------------------------------------------------------------- microtasks

NextJob == Head(microtasks)
Popped == [Cur EXCEPT !.microtasks = Tail(@), !.threw = NoThrow]

\* then(cleanupFn, cleanupFn) of the Dispatcher's constructor
RunCleanup ==
    /\ microtasks # <<>> /\ NextJob.r.k = "cleanup"
    /\ Commit(IF NextJob.state \in CleanupPaths THEN CleanupFn(Popped, NextJob.r.c) ELSE Popped)

\* then(this.end.bind(this), this.cancel.bind(this)) of chain() and adopt()
RunBridgeEnds ==
    /\ microtasks # <<>> /\ NextJob.r.k = "bridge"
    /\ Commit(CallEnd(NoteBridge(Popped, NextJob.r.c), NextJob.r.c, NextJob.value))

RunBridge ==
    /\ microtasks # <<>> /\ NextJob.r.k = "bridge"
    /\ Commit(IF NextJob.state = "fulfilled"
              THEN CallEnd(NoteBridge(Popped, NextJob.r.c), NextJob.r.c, NextJob.value)
              ELSE CallCancel(NoteBridge(Popped, NextJob.r.c), NextJob.r.c, NextJob.value))

\* The reactions Promise.race puts on its two arguments
RunRace ==
    /\ microtasks # <<>> /\ NextJob.r.k = "race"
    /\ Commit(IF shorts[NextJob.r.i].state = "pending"
              THEN [Popped EXCEPT !.shorts[NextJob.r.i] =
                                      [state |-> NextJob.state, value |-> NextJob.value]]
              ELSE Popped)

\* EventDispatcher.finish() resumes after its await
FinishResumedUndefined(s, i, st, v) ==
    [RemoveErrorListener(s) EXCEPT
        !.finish[i].state = st, !.finish[i].value = IF st = "fulfilled" THEN Undefined ELSE v]

FinishResumed(s, i, st, v) ==
    [RemoveErrorListener(s) EXCEPT !.finish[i].state = st, !.finish[i].value = v]

RunFinish ==
    /\ microtasks # <<>> /\ NextJob.r.k = "finish"
    /\ Commit(FinishResumed(Popped, NextJob.r.i, NextJob.state, NextJob.value))

\* EventDispatcher.onEvent() resumes after its await
RunOnEvent ==
    /\ microtasks # <<>> /\ NextJob.r.k = "onEvent"
    /\ Commit(HandlerDone(Popped, NextJob.state, NextJob.value))

\* ---------------------------------------------------------- specifications

NoHistory ==
    [first |-> [c \in Cores |-> NoCall],
     deferredEnd |-> [made |-> FALSE, value |-> Undefined],
     cancelInFlight |-> [made |-> FALSE, value |-> Undefined, endPending |-> FALSE],
     fail |-> [made |-> FALSE, value |-> Undefined, endPending |-> FALSE, others |-> FALSE],
     adopt |-> "none", won |-> <<>>,
     bridged |-> [c \in Cores |-> "none"],
     ended |-> FALSE, lateCall |-> FALSE, errRemovals |-> 0,
     early |-> [made |-> FALSE, op |-> "none", arg |-> Undefined],
     internal |-> [made |-> FALSE, where |-> "none", value |-> Undefined],
     laterEnd |-> [made |-> FALSE, value |-> Undefined],
     window |-> [made |-> FALSE, value |-> Undefined, handlers |-> 0, started |-> 0],
     expiry |-> [made |-> FALSE, adopted |-> FALSE, otherPending |-> FALSE],
     lead |-> FALSE,
     foreign |-> <<>>,
     errorEvent |-> [made |-> FALSE, value |-> Undefined, inflight |-> 0],
     sentinel |-> [made |-> FALSE, fn |-> "none", value |-> Undefined, inflight |-> 0,
                   first |-> FALSE, only |-> FALSE, moved |-> FALSE]]

\* new Dispatcher(cleanupFn): the deferred, and cleanupFn registered on its promise
Constructed(ks) ==
    /\ kind = ks
    /\ promise = [p \in PromiseIds |-> Pending]
    /\ reactions = [p \in PromiseIds |->
                      IF p \in Cores /\ ks[p] # "none"
                      THEN <<Reaction("cleanup", p, 0)>> ELSE <<>>]
    /\ microtasks = <<>>
    /\ cleanupCalls = [c \in Cores |-> 0]
    /\ userCleanupCalls = 0
    /\ finish = <<>>
    /\ shorts = <<>>
    /\ threw = NoThrow
    /\ calls = [chain |-> 0, adopt |-> 0]
    /\ hist = NoHistory
    /\ processing = 0
    /\ endResult = NoResult
    /\ awaiting = 0

\* new EventDispatcher(source, options)
InitEventDispatcher(opts) ==
    /\ Constructed([c \in Cores |-> IF c = ED THEN "EventDispatcher" ELSE "none"])
    /\ options = opts
    /\ source = TRUE
    /\ events = [null |-> FALSE, list |-> <<>>]
    /\ errArmed = ~options.keepErrorListener
    /\ timer = NoTimer
    /\ listeners = <<[event |-> "error", fn |-> "errorListener", n |-> 0]>>

\* Dispatchers that are no EventDispatcher: its fields do not exist
NoEventFields ==
    /\ options = DefaultOptions
    /\ source = FALSE
    /\ events = [null |-> TRUE, list |-> <<>>]
    /\ errArmed = FALSE
    /\ listeners = <<>>

\* Plain dispatchers
InitDispatchers(ks) ==
    /\ Constructed(ks)
    /\ NoEventFields
    /\ timer = NoTimer

\* new TimeoutDispatcher(delayMs, result): the timer is started
TimeoutResults ==
    {[error |-> TRUE, value |-> v] : v \in Values}
        \cup {[error |-> FALSE, value |-> v] : v \in Values \cup {Undefined}}

InitTimeoutDispatcher(result) ==
    /\ Constructed([c \in Cores |-> IF c = ED THEN "TimeoutDispatcher" ELSE "none"])
    /\ NoEventFields
    /\ timer = [timeout |-> TRUE, scheduled |-> TRUE, fired |-> FALSE, result |-> result]

\* One dispatcher, plain or event-consuming, and a promise chained to it
Init ==
    \/ InitEventDispatcher(DefaultOptions)
    \/ InitDispatchers([c \in Cores |-> IF c = ED THEN "Dispatcher" ELSE "none"])

Next ==
    \/ \E v \in Values : End(ED, v)
    \/ \E e \in Values : Cancel(ED, e)
    \/ \E handler \in {"EventDispatcher.end"} \cup UserHandlers : source /\ On("data", handler)
    \/ \E event \in EventNames, arg \in Values : Emit(event, arg)
    \/ HandlerSettle("fulfilled", Undefined)
    \/ \E e \in Values : HandlerSettle("rejected", e)
    \/ Finish
    \/ RunCleanup
    \/ RunFinish
    \/ RunOnEvent

Spec == Init /\ [][Next]_vars

\* Two plain dispatchers, one adopting the other
InitAdopt == InitDispatchers([c \in Cores |-> "Dispatcher"])

NextAdopt ==
    \/ \E c \in Cores, v \in Values : End(c, v)
    \/ \E c \in Cores, e \in Values : Cancel(c, e)
    \/ Adopt
    \/ RunCleanup
    \/ RunBridge

SpecAdopt == InitAdopt /\ [][NextAdopt]_vars

\* One plain dispatcher and a promise raced against it with short()
InitShort == InitDispatchers([c \in Cores |-> IF c = ED THEN "Dispatcher" ELSE "none"])

NextShort ==
    \/ \E v \in Values : End(ED, v)
    \/ \E e \in Values : Cancel(ED, e)
    \/ Short
    \/ \E v \in Values : FutureSettle("fulfilled", v)
    \/ \E e \in Values : FutureSettle("rejected", e)
    \/ RunCleanup
    \/ RunRace

SpecShort == InitShort /\ [][NextShort]_vars

\* An EventDispatcher driven by its source: any event may be registered with
\* a sentinel or an async handler
InitEvents == InitEventDispatcher(DefaultOptions)

NextEvents ==
    \/ \E v \in Values : End(ED, v)
    \/ \E e \in Values : Cancel(ED, e)
    \/ \E event \in EventNames, handler \in Sentinels \cup {"async"} :
          source /\ On(event, handler)
    \/ \E event \in EventNames, arg \in Values : EmitObserved(event, arg)
    \/ HandlerSettle("fulfilled", Undefined)
    \/ RunCleanup
    \/ RunOnEvent

SpecEvents == InitEvents /\ [][NextEvents]_vars

\* An EventDispatcher constructed with any options
OptionSets == [cleanup : BOOLEAN, keepErrorListener : BOOLEAN]

InitOptions == \E opts \in OptionSets : InitEventDispatcher(opts)

NextOptions ==
    \/ \E v \in Values : End(ED, v)
    \/ \E e \in Values : Cancel(ED, e)
    \/ source /\ On("data", "async")
    \/ \E event \in EventNames, arg \in Values : Emit(event, arg)
    \/ HandlerSettle("fulfilled", Undefined)
    \/ Finish
    \/ RunCleanup
    \/ RunFinish
    \/ RunOnEvent

SpecOptions == InitOptions /\ [][NextOptions]_vars

\* A TimeoutDispatcher with any result, its timer, and its callers
InitTimeout == \E result \in TimeoutResults : InitTimeoutDispatcher(result)

NextTimeout ==
    \/ \E v \in Values : End(ED, v)
    \/ \E e \in Values : Cancel(ED, e)
    \/ TimerExpire
    \/ Finish
    \/ RunCleanup

SpecTimeout == InitTimeout /\ [][NextTimeout]_vars

\* One plain dispatcher and a promise chained to it
InitChain == InitDispatchers([c \in Cores |-> IF c = ED THEN "Dispatcher" ELSE "none"])

NextChain ==
    \/ \E v \in Values : End(ED, v)
    \/ \E e \in Values : Cancel(ED, e)
    \/ Chain
    \/ \E v \in Values : FutureSettle("fulfilled", v)
    \/ \E e \in Values : FutureSettle("rejected", e)
    \/ Finish
    \/ RunCleanup
    \/ RunBridge

SpecChain == InitChain /\ [][NextChain]_vars

\* An EventDispatcher on which on() is called in every state, with a valid
\* handler or a sentinel
InitOn == InitEventDispatcher(DefaultOptions)

NextOn ==
    \/ \E v \in Values : End(ED, v)
    \/ \E e \in Values : Cancel(ED, e)
    \/ \E handler \in Sentinels \cup UserHandlers : On("data", handler)
    \/ \E arg \in Values : Emit("data", arg)
    \/ HandlerSettle("fulfilled", Undefined)
    \/ RunCleanup
    \/ RunOnEvent

SpecOn == InitOn /\ [][NextOn]_vars

\* An EventDispatcher whose end() may meet an internal exception
InitFault == InitEventDispatcher(DefaultOptions)

NextFault ==
    \/ \E v \in Values : End(ED, v)
    \/ \E v \in Values, where \in InternalFaults, err \in Values : EndRaising(v, where, err)
    \/ \E e \in Values : Cancel(ED, e)
    \/ source /\ On("data", "async")
    \/ \E arg \in Values : Emit("data", arg)
    \/ HandlerSettle("fulfilled", Undefined)
    \/ Finish
    \/ RunCleanup
    \/ RunFinish
    \/ RunOnEvent

SpecFault == InitFault /\ [][NextFault]_vars

\* An EventDispatcher that is never cancelled and whose handlers all
\* complete successfully: a handler's promise that is awaited is settled in
\* the end, and the microtask queue is always run
InitDrain == InitEventDispatcher(DefaultOptions)

NextDrain ==
    \/ \E v \in Values : EndObserved(v)
    \/ source /\ On("data", "async")
    \/ \E arg \in Values : Emit("data", arg)
    \/ HandlerSettle("fulfilled", Undefined)
    \/ Finish
    \/ RunCleanup
    \/ RunFinish
    \/ RunOnEvent

SpecDrain ==
    /\ InitDrain /\ [][NextDrain]_vars
    /\ WF_vars(HandlerSettle("fulfilled", Undefined))
    /\ WF_vars(RunCleanup) /\ WF_vars(RunFinish) /\ WF_vars(RunOnEvent)

\* A TimeoutDispatcher with any result, a plain dispatcher joined to it by
\* adopt() from either side, a promise chained to it, and their callers
InitCompose ==
    \E result \in TimeoutResults :
        /\ Constructed([c \in Cores |-> IF c = ED THEN "TimeoutDispatcher" ELSE "Dispatcher"])
        /\ NoEventFields
        /\ timer = [timeout |-> TRUE, scheduled |-> TRUE, fired |-> FALSE, result |-> result]

NextCompose ==
    \/ \E v \in Values : End(ED, v)
    \/ \E e \in Values : Cancel(ED, e)
    \/ End(OD, "a")
    \/ Cancel(OD, "b")
    \/ TimerExpire
    \/ Chain
    \/ FutureSettle("fulfilled", "a")
    \/ FutureSettle("rejected", "b")
    \/ Adopt
    \/ AdoptedBy
    \/ RunCleanup
    \/ RunBridge

SpecCompose == InitCompose /\ [][NextCompose]_vars

\* An EventDispatcher on a source that other parties listen to as well
InitForeign == InitEventDispatcher(DefaultOptions)

NextForeign ==
    \/ \E event \in {"data", "error"} : ForeignOn(event)
    \/ source /\ On("data", "async")
    \/ End(ED, "a")
    \/ Cancel(ED, "b")
    \/ \E event \in {"data", "error"} : Emit(event, "b")
    \/ HandlerSettle("fulfilled", Undefined)
    \/ Finish
    \/ RunCleanup
    \/ RunFinish
    \/ RunOnEvent

SpecForeign == InitForeign /\ [][NextForeign]_vars

\* -------------------------------------------------------------- properties

Settled(p) == promise[p].state # "pending"
Outcome(st, v) == [state |-> st, value |-> v]
IsEventDispatcher == kind[ED] = "EventDispatcher"

\* C1 (first writer wins): a core is pending until the first resolve / reject
\* call reaches it, from then on it holds the outcome that first call asked
\* for, whatever calls follow, and no end() or cancel() call raises.
C1_FirstWriterWins ==
    /\ \A c \in Cores :
          IF hist.first[c].state = "none"
          THEN promise[c] = Pending
          ELSE promise[c] = Outcome(hist.first[c].state, hist.first[c].value)
    /\ threw.op \notin {"end", "cancel"}

\* C1 witness: an EventDispatcher settled by its first call, with a later
\* call made on it after that.
C1_Witness ==
    /\ IsEventDispatcher
    /\ hist.first[ED].later
    /\ promise[ED] = Outcome("fulfilled", "a")

\* C2 (in-flight gate): the EventDispatcher's deferred is resolved only by a
\* call made while processing is 0.
C2_InFlightGate ==
    IsEventDispatcher =>
        /\ promise[ED].state = "fulfilled" => hist.first[ED].state = "fulfilled"
        /\ hist.first[ED].state = "fulfilled" => hist.first[ED].inflight = 0

\* C2 witness: an end request was made with handlers in flight, and the
\* dispatcher has ended since.
C2_Witness ==
    /\ IsEventDispatcher
    /\ hist.deferredEnd.made
    /\ promise[ED].state = "fulfilled"
    /\ processing = 0

\* C3 (deferred end): after end(r) is called with a handler in flight, the
\* dispatcher is pending exactly as long as handlers are in flight, with r
\* kept as the pending result, and when it ends it ends with r.
C3_DeferredEnd ==
    (IsEventDispatcher /\ hist.deferredEnd.made) =>
        /\ promise[ED].state = "pending" =>
              processing > 0 /\ endResult = hist.deferredEnd.value
        /\ promise[ED].state = "fulfilled" =>
              /\ promise[ED].value = hist.deferredEnd.value
              /\ hist.first[ED].inflight = 0

\* C3 witness: a deferred end(r) has been honoured with r.
C3_Witness ==
    /\ IsEventDispatcher
    /\ hist.deferredEnd.made
    /\ promise[ED] = Outcome("fulfilled", hist.deferredEnd.value)

\* C4 (cancel is not gated): from the step in which cancel(e) is called on a
\* pending dispatcher with handlers in flight, the dispatcher is failed with
\* e, and stays so when those handlers complete.
C4_CancelNotGated ==
    hist.cancelInFlight.made => promise[ED] = Outcome("rejected", hist.cancelInFlight.value)

\* C4 witness: cancel was called with handlers in flight and an end request
\* pending, and every handler has completed since.
C4_Witness ==
    /\ hist.cancelInFlight.made
    /\ hist.cancelInFlight.endPending
    /\ processing = 0 /\ microtasks = <<>>
    /\ promise[ED] = Outcome("rejected", hist.cancelInFlight.value)

\* C5 (handler failure before a pending end), as claimed: a handler that
\* fails with e while an end request is pending fails the dispatcher with e.
C5_FailureBeforePendingEnd ==
    (hist.fail.made /\ hist.fail.endPending) =>
        promise[ED] = Outcome("rejected", hist.fail.value)

\* C6 (handler failure cancels): a handler that fails with e while the
\* dispatcher is pending and no end request has been made fails the
\* dispatcher with e, however many other handlers are in flight.
C6_HandlerFailureCancels ==
    (hist.fail.made /\ ~hist.fail.endPending) =>
        promise[ED] = Outcome("rejected", hist.fail.value)

\* C6 witness: a handler failed while another was in flight and no end was
\* requested, and the dispatcher is failed with its error.
C6_Witness ==
    /\ hist.fail.made /\ ~hist.fail.endPending /\ hist.fail.others
    /\ promise[ED] = Outcome("rejected", hist.fail.value)

\* C7 (adopt fixes both), as claimed: after adopt() is called on two pending
\* cores, once both are settled they hold the same outcome.
C7_AdoptSameOutcome ==
    (hist.adopt = "pending" /\ Settled(ED) /\ Settled(OD)) => promise[ED] = promise[OD]

\* C8 (short races only the failure), as claimed: for short() called while
\* the core and the promise are pending, the returned promise fails with e if
\* the core was cancelled with e before the promise settled, and otherwise
\* settles as the promise does.
C8_ShortRacesFailure ==
    \A i \in 1..Len(shorts) :
        (hist.won[i] \in {"core", "fut"} /\ shorts[i].state # "pending") =>
            IF hist.won[i] = "core" /\ promise[ED].state = "rejected"
            THEN shorts[i] = promise[ED]
            ELSE shorts[i] = promise[Future]

CleanupQueued(c) ==
    Cardinality({i \in 1..Len(microtasks) : microtasks[i].r = Reaction("cleanup", c, 0)})

\* C9 (cleanup exactly once): cleanupFn is not called while the core is
\* pending, and once the core is settled it is called exactly once: it has
\* run once, or is queued once and has not run.
C9_CleanupOnce ==
    \A c \in Cores :
        kind[c] # "none" =>
            IF promise[c].state = "pending"
            THEN cleanupCalls[c] = 0 /\ CleanupQueued(c) = 0
            ELSE cleanupCalls[c] + CleanupQueued(c) = 1

\* C9 witness: cleanupFn has run once on the failure path, and a later
\* end() or cancel() call has been made.
C9_Witness ==
    /\ promise[ED].state = "rejected"
    /\ hist.first[ED].later
    /\ cleanupCalls[ED] = 1
    /\ microtasks = <<>>

\* C10 (finish() agreement): every settled finish() promise holds the core's
\* outcome, and a finish() call leaves the core's outcome as it is.
C10_FinishAgreement ==
    /\ [](\A i \in 1..Len(finish) :
             FinishOutcome(i).state # "pending" => FinishOutcome(i) = promise[ED])
    /\ [][Len(finish') > Len(finish) => promise' = promise]_vars

\* C10 witness: two finish() calls on an EventDispatcher, one made while it
\* was pending and one after it had ended, both settled.
C10_Witness ==
    /\ IsEventDispatcher
    /\ Len(finish) = 2
    /\ finish[1].early /\ ~finish[2].early
    /\ finish[1].state = "fulfilled" /\ finish[2].state = "fulfilled"

TrackedOnSource == {i \in 1..Len(listeners) : listeners[i].n > 0}

\* C11 (end() tears listeners down synchronously): once end() has returned,
\* whether or not the dispatcher is settled, the source holds no listener
\* registered through on() and the source reference is dropped, and no emit
\* made after that calls a handler of the dispatcher or changes processing.
C11_EndTearsDown ==
    (IsEventDispatcher /\ hist.ended) =>
        /\ TrackedOnSource = {}
        /\ ~source
        /\ ~hist.lateCall

\* C11 witness: end() was called with a handler in flight, the dispatcher is
\* still pending, and the source has only the error listener left.
C11_Witness ==
    /\ IsEventDispatcher
    /\ hist.ended /\ hist.deferredEnd.made
    /\ promise[ED].state = "pending" /\ processing > 0
    /\ Len(listeners) = 1 /\ listeners[1].fn = "errorListener"

FinishSettled(i) == finish[i].state \in {"fulfilled", "rejected"}

\* C12 (teardown on every path): when a finish() promise of the
\* EventDispatcher is settled, with success or with failure, the source holds
\* no listener registered through on(), and this.source and this._events are
\* dropped.
C12_TeardownBeforeFinish ==
    IsEventDispatcher =>
        \A i \in 1..Len(finish) :
            FinishSettled(i) => TrackedOnSource = {} /\ ~source /\ events.null

\* C12 witness: a handler failed, end() was never called, and a finish()
\* promise has settled with the failure after the listeners were removed.
C12_Witness ==
    /\ IsEventDispatcher
    /\ hist.fail.made /\ ~hist.ended
    /\ Len(finish) > 0 /\ finish[1].state = "rejected"
    /\ TrackedOnSource = {} /\ ~source

ErrorListenerOnSource == \E i \in 1..Len(listeners) : listeners[i].fn = "errorListener"

\* C13 (two-phase error-listener teardown): the constructor's error listener
\* is on the source exactly as long as no finish() call has completed, so
\* also after end() has returned and after the dispatcher has settled; it is
\* removed once, by the first finish() call that completes; with
\* keepErrorListener it is never removed.
C13_ErrorListenerTeardown ==
    IsEventDispatcher =>
        IF options.keepErrorListener
        THEN ErrorListenerOnSource /\ hist.errRemovals = 0
        ELSE /\ ErrorListenerOnSource <=> (\A i \in 1..Len(finish) : ~FinishSettled(i))
             /\ hist.errRemovals = IF ErrorListenerOnSource THEN 0 ELSE 1

\* C13 witness: without keepErrorListener, end() was called, two finish()
\* calls have completed, and the error listener was removed once.
C13_Witness ==
    /\ IsEventDispatcher /\ ~options.keepErrorListener
    /\ hist.ended
    /\ Len(finish) = 2 /\ FinishSettled(1) /\ FinishSettled(2)
    /\ ~ErrorListenerOnSource /\ hist.errRemovals = 1

\* C19 (cleanup option ordering): options.cleanup is not called while the
\* dispatcher is pending, is called exactly once after it has settled (it has
\* run once, or its call is queued once), the tracked listeners are off the
\* source when it has run, and it has run when any finish() promise settles;
\* without the option nothing is called.
C19_CleanupOption ==
    IsEventDispatcher =>
        IF ~options.cleanup THEN userCleanupCalls = 0
        ELSE /\ IF promise[ED].state = "pending"
                THEN userCleanupCalls = 0
                ELSE userCleanupCalls + CleanupQueued(ED) = 1
             /\ userCleanupCalls = 1 => TrackedOnSource = {} /\ ~source
             /\ \A i \in 1..Len(finish) : FinishSettled(i) => userCleanupCalls = 1

\* C19 witness: with the cleanup option, a listener was registered and a
\* handler run, the dispatcher was cancelled without end() being called, the
\* cleanup has run once and a finish() promise has settled after it.
C19_Witness ==
    /\ IsEventDispatcher /\ options.cleanup
    /\ hist.cancelInFlight.made /\ ~hist.ended
    /\ userCleanupCalls = 1
    /\ Len(finish) > 0 /\ finish[1].early /\ FinishSettled(1)

ExpiryOutcome ==
    Outcome(IF timer.result.error THEN "rejected" ELSE "fulfilled", timer.result.value)

\* C14 (TimeoutDispatcher early termination): from the first end(x) or
\* cancel(e) call made before the timer has expired, the dispatcher is ended
\* with no value, the timer never fires, and once cleanupFn has run the timer
\* is cleared and its handle dropped.
C14_EarlyTermination ==
    hist.early.made =>
        /\ promise[ED] = Outcome("fulfilled", Undefined)
        /\ ~timer.fired
        /\ cleanupCalls[ED] + CleanupQueued(ED) = 1
        /\ cleanupCalls[ED] = 1 => ~timer.scheduled /\ ~timer.timeout

\* C14 witness: cancel(e) was called before the timer of a TimeoutDispatcher
\* with an error result expired; it has ended with no value and the timer is
\* cleared.
C14_Witness ==
    /\ hist.early.made /\ hist.early.op = "cancel" /\ hist.early.arg = "b"
    /\ timer.result.error
    /\ promise[ED] = Outcome("fulfilled", Undefined)
    /\ cleanupCalls[ED] = 1 /\ ~timer.scheduled

\* C15 (TimeoutDispatcher expiry): as long as neither end nor cancel has been
\* called before the timer expired, the dispatcher is pending until the timer
\* fires, and from then on failed with the configured result when that is an
\* error and ended with it otherwise.
C15_Expiry ==
    (kind[ED] = "TimeoutDispatcher" /\ ~hist.early.made) =>
        IF timer.fired THEN promise[ED] = ExpiryOutcome ELSE promise[ED] = Pending

\* C15 witness: the timer fired with an error result, the dispatcher has
\* failed with it, and a later end() or cancel() call has changed nothing.
C15_Witness ==
    /\ kind[ED] = "TimeoutDispatcher" /\ ~hist.early.made
    /\ timer.fired /\ timer.result.error
    /\ promise[ED] = Outcome("rejected", timer.result.value)
    /\ hist.first[ED].later

BridgeQueued ==
    \E i \in 1..Len(microtasks) : microtasks[i].r = Reaction("bridge", ED, 0)

\* C16 (chain propagates the promise's settlement): after chain(promise), once
\* the promise has settled and its callback has run, the core is settled,
\* and if no other end / cancel call had settled the core before the
\* callback ran, the core has the promise's outcome: ended with v when the
\* promise was fulfilled with v, failed with e when it was rejected with e.
C16_ChainPropagates ==
    calls.chain > 0 =>
        /\ (Settled(Future) /\ ~BridgeQueued) => hist.bridged[ED] # "none" /\ Settled(ED)
        /\ hist.bridged[ED] = "pending" => Settled(Future) /\ promise[ED] = promise[Future]

\* C16 witness: the chained promise was rejected with b while the core was
\* pending, the core has failed with b, and a later end / cancel call on the
\* core has changed nothing.
C16_Witness ==
    /\ calls.chain > 0
    /\ hist.bridged[ED] = "pending"
    /\ promise[Future] = Outcome("rejected", "b")
    /\ promise[ED] = Outcome("rejected", "b")
    /\ hist.first[ED].later

\* C17 (error event cancels): from the first error event emitted with error E
\* while the EventDispatcher is pending, the dispatcher is failed with E,
\* however many handlers are in flight.
C17_ErrorEventCancels ==
    hist.errorEvent.made => promise[ED] = Outcome("rejected", hist.errorEvent.value)

\* C17 witness: the error event came with a handler in flight and an end
\* request pending, and the dispatcher has stayed failed with its error after
\* the handler completed.
C17_Witness ==
    /\ hist.errorEvent.made /\ hist.errorEvent.inflight > 0
    /\ hist.deferredEnd.made
    /\ processing = 0 /\ microtasks = <<>>
    /\ promise[ED] = Outcome("rejected", hist.errorEvent.value)

\* C18 (sentinel handlers): for the first event delivered to a sentinel
\* registration while the dispatcher is pending, with payload p.  Error
\* sentinel: the dispatcher is failed with p.  End sentinel, with no earlier
\* end request: with no handler in flight the dispatcher is ended with p; with
\* handlers in flight p is the deferred end request.  When every listener of
\* the event is a sentinel registration, delivering it leaves processing as
\* it was.
C18_SentinelHandlers ==
    hist.sentinel.made =>
        /\ hist.sentinel.fn = "cancel" =>
              promise[ED] = Outcome("rejected", hist.sentinel.value)
        /\ (hist.sentinel.fn = "end" /\ hist.sentinel.first) =>
              IF hist.sentinel.inflight = 0
              THEN promise[ED] = Outcome("fulfilled", hist.sentinel.value)
              ELSE /\ hist.deferredEnd = [made |-> TRUE, value |-> hist.sentinel.value]
                   /\ promise[ED].state = "pending" => endResult = hist.sentinel.value
        /\ hist.sentinel.only => ~hist.sentinel.moved

\* C18 witness: an event registered with the end sentinel and with nothing
\* else was delivered with a handler of another event in flight, and the
\* dispatcher has ended with the event's payload since.
C18_Witness ==
    /\ hist.sentinel.made /\ hist.sentinel.fn = "end" /\ hist.sentinel.first
    /\ hist.sentinel.only /\ hist.sentinel.inflight > 0
    /\ promise[ED] = Outcome("fulfilled", hist.sentinel.value)

\* C20 (no synchronous failures after construction), as claimed: in no state
\* of an EventDispatcher does a call of on() with a function or a sentinel,
\* of end() or of cancel() raise.
C20_NoSynchronousFailure ==
    IsEventDispatcher => threw = NoThrow

\* C21 (internal failure in end()): from the first end() call on a pending
\* EventDispatcher during which removeListeners() or checkFinish() raises,
\* the dispatcher is failed with that exception, every settled finish()
\* promise shows it, and the call itself returns normally.
C21_InternalFailureInEnd ==
    hist.internal.made =>
        /\ promise[ED] = Outcome("rejected", hist.internal.value)
        /\ \A i \in 1..Len(finish) :
              FinishSettled(i) => FinishOutcome(i) = Outcome("rejected", hist.internal.value)
        /\ threw = NoThrow

\* C21 witness: removeListeners() raised inside end() while a handler was in
\* flight, and a finish() call made before it has settled with the exception.
C21_Witness ==
    /\ hist.internal.made /\ hist.internal.where = "removeListeners"
    /\ hist.deferredEnd.made
    /\ Len(finish) > 0 /\ finish[1].early
    /\ FinishOutcome(1) = Outcome("rejected", hist.internal.value)

DeferredEndHonoured == promise[ED] = Outcome("fulfilled", hist.deferredEnd.value)

\* C22 (deferred end is eventually honoured): when end(r) has been requested
\* with handlers in flight, no cancel occurs and every handler completes
\* successfully, the dispatcher stays pending while a handler is in flight,
\* ends with r in the step in which the last handler in flight completes,
\* and so ends with r eventually.
C22_DeferredEndHonoured ==
    /\ []((hist.deferredEnd.made /\ processing > 0) => promise[ED] = Pending)
    /\ [][(hist.deferredEnd.made /\ processing = 1 /\ processing' = 0)
              => promise'[ED] = Outcome("fulfilled", hist.deferredEnd.value)]_vars
    /\ (hist.deferredEnd.made ~> DeferredEndHonoured)

\* C22 witness: end(b) was requested with handlers in flight, all of them
\* have completed, and the dispatcher has ended with b and cleaned up.
C22_Witness ==
    /\ hist.deferredEnd = [made |-> TRUE, value |-> "b"]
    /\ processing = 0 /\ awaiting = 0 /\ microtasks = <<>>
    /\ promise[ED] = Outcome("fulfilled", "b")
    /\ cleanupCalls[ED] = 1

\* C26 (first end request wins while draining): when end(r1) is pending
\* because handlers are in flight and end(r2) is called before the count
\* reaches 0, the pending result stays r1 as long as the dispatcher is
\* pending, and the dispatcher ends with r1 eventually.
C26_FirstEndRequestWins ==
    /\ [](hist.laterEnd.made =>
              IF promise[ED].state = "pending"
              THEN endResult = hist.deferredEnd.value
              ELSE DeferredEndHonoured)
    /\ (hist.laterEnd.made ~> DeferredEndHonoured)

\* C26 witness: end(a) was deferred, end(b) was called while handlers were
\* still in flight, and the dispatcher has ended with a.
C26_Witness ==
    /\ hist.deferredEnd = [made |-> TRUE, value |-> "a"]
    /\ hist.laterEnd = [made |-> TRUE, value |-> "b"]
    /\ promise[ED] = Outcome("fulfilled", "a")

\* Handler invocations whose promise has settled and whose onEvent has not
\* resumed yet
Resuming ==
    Cardinality({i \in 1..Len(microtasks) : microtasks[i].r.k = "onEvent"})

\* C23 (in-flight count): processing is never negative and is the number of
\* handler invocations that have started and whose onEvent has not completed:
\* those still awaited and those about to resume, with success or failure.
C23_InFlightCount ==
    IsEventDispatcher =>
        /\ processing >= 0
        /\ processing = awaiting + Resuming

\* C23 witness: two invocations in flight at once, one still awaited and one
\* about to resume with a failure, after an earlier invocation failed.
C23_Witness ==
    /\ IsEventDispatcher
    /\ processing = 2 /\ awaiting = 1
    /\ \E i \in 1..Len(microtasks) :
          microtasks[i].r.k = "onEvent" /\ microtasks[i].state = "rejected"
    /\ hist.fail.made

\* C27 (cancel does not tear down synchronously): while the EventDispatcher
\* is failed, end() was never called and the cleanup has not run yet, every
\* listener registered through on() is still on the source; an event emitted
\* in that window starts every handler registered for it, raising processing
\* by one each, and the dispatcher stays failed with the same error.
C27_CancelKeepsListeners ==
    IsEventDispatcher =>
        /\ (promise[ED].state = "rejected" /\ cleanupCalls[ED] = 0 /\ ~hist.ended) =>
              source /\ Cardinality(TrackedOnSource) = Len(events.list)
        /\ hist.window.made =>
              /\ hist.window.started = hist.window.handlers
              /\ promise[ED] = Outcome("rejected", hist.window.value)

\* C27 witness: cancel(b) was called, an event emitted before the cleanup ran
\* started a handler, the handler has completed and the cleanup has run, and
\* the dispatcher is still failed with b.
C27_Witness ==
    /\ hist.window.made /\ hist.window.started > 0 /\ hist.window.value = "b"
    /\ ~hist.errorEvent.made /\ ~hist.sentinel.made
    /\ processing = 0 /\ cleanupCalls[ED] = 1 /\ microtasks = <<>>
    /\ promise[ED] = Outcome("rejected", "b")

\* C24 (only natural expiry fails a timeout): whatever end and cancel calls
\* reach a TimeoutDispatcher, from its callers, from a chained promise or from
\* an adopted dispatcher, it has failed only if its timer expired with an
\* error result, and then with that error; an end or cancel call made before
\* the expiry ends it with no value; once settled, exactly one of the timer's
\* expiry and an early end or cancel call has decided the outcome, which is
\* that of the first settling call; every later one changed nothing.
C24_OnlyExpiryFails ==
    kind[ED] = "TimeoutDispatcher" =>
        /\ promise[ED].state = "rejected" =>
              timer.fired /\ timer.result.error /\ promise[ED].value = timer.result.value
        /\ hist.early.made => promise[ED] = Outcome("fulfilled", Undefined)
        /\ timer.fired => promise[ED] = ExpiryOutcome
        /\ Settled(ED) =>
              /\ hist.early.made # timer.fired
              /\ hist.early.made => hist.early.op \in {"end", "cancel"}
              /\ promise[ED] = Outcome(hist.first[ED].state, hist.first[ED].value)

\* C24 witness: a TimeoutDispatcher with an error result was chained to a
\* promise that was rejected; the forwarded cancel call came before the timer
\* expired and ended the dispatcher with no value, and a later call on it
\* changed nothing.
C24_Witness ==
    /\ kind[ED] = "TimeoutDispatcher" /\ timer.result.error
    /\ calls.chain = 1 /\ promise[Future] = Outcome("rejected", "b")
    /\ hist.bridged[ED] = "pending"
    /\ hist.early.made /\ hist.early.op = "cancel" /\ hist.early.arg = "b"
    /\ promise[ED] = Outcome("fulfilled", Undefined)
    /\ ~timer.fired /\ hist.first[ED].later

ForwardQueued(c, outcome) ==
    \E i \in 1..Len(microtasks) :
        /\ microtasks[i].r = Reaction("bridge", c, 0)
        /\ microtasks[i].state = outcome.state /\ microtasks[i].value = outcome.value

\* C28 (timeout composed by adopt): D and a TimeoutDispatcher T with an error
\* result are joined by adopt(). When T's timer expires after that with D
\* pending, T has failed with the error, the cancel call forwarded to D is
\* queued as long as D is pending, and D has failed with the error once that
\* call has reached it pending. When D's first end or cancel call is made
\* while T is pending, D keeps that call's outcome, the timer never fires, the
\* end or cancel call forwarded to T is queued as long as T is pending, T ends
\* with no value, and once T's cleanupFn has run the timer is released.
C28_TimeoutAdopted ==
    (kind[ED] = "TimeoutDispatcher" /\ timer.result.error) =>
        /\ (hist.expiry.made /\ hist.expiry.adopted /\ hist.expiry.otherPending) =>
              /\ promise[ED] = Outcome("rejected", timer.result.value)
              /\ ~Settled(OD) => ForwardQueued(OD, promise[ED])
              /\ hist.bridged[OD] = "pending" =>
                    promise[OD] = Outcome("rejected", timer.result.value)
        /\ hist.lead =>
              /\ ~timer.fired
              /\ Settled(OD)
              /\ promise[OD] = Outcome(hist.first[OD].state, hist.first[OD].value)
              /\ IF Settled(ED) THEN promise[ED] = Outcome("fulfilled", Undefined)
                 ELSE ForwardQueued(ED, promise[OD])
              /\ cleanupCalls[ED] = 1 => ~timer.scheduled /\ ~timer.timeout
              /\ microtasks = <<>> => cleanupCalls[ED] = 1

\* C28 witness: adopt() joined the two while both were pending, the timer
\* then expired with error b while D was pending, the forwarded cancel call
\* reached D pending, and D has failed with b; both cleanups have run.
C28_Witness ==
    /\ kind[ED] = "TimeoutDispatcher" /\ timer.result = [error |-> TRUE, value |-> "b"]
    /\ hist.expiry.made /\ hist.expiry.adopted /\ hist.expiry.otherPending
    /\ hist.bridged[OD] = "pending"
    /\ promise[OD] = Outcome("rejected", "b")
    /\ promise[ED] = Outcome("rejected", "b")
    /\ microtasks = <<>> /\ cleanupCalls[OD] = 1 /\ cleanupCalls[ED] = 1

\* C25 (foreign listeners untouched): whatever on, end, cancel and finish
\* calls are made and whatever events are emitted, every listener another
\* party has added to the source is still registered on it, for the same
\* event and in the same order, also when the dispatcher had listeners of its
\* own on that event; the other listeners on the source are the dispatcher's
\* own, and none of those is left once it has torn down and finish() returned.
C25_ForeignUntouched ==
    IsEventDispatcher =>
        /\ Len(ForeignListeners(listeners)) = Len(hist.foreign)
        /\ \A i \in 1..Len(hist.foreign) :
              ForeignListeners(listeners)[i].event = hist.foreign[i]
        /\ \A i \in 1..Len(listeners) :
              listeners[i].fn # "foreign" =>
                  \/ listeners[i].fn = "errorListener" /\ errArmed
                  \/ source /\ IsTracked(Cur, listeners[i])

\* C25 witness: other parties listen to data and to error; the dispatcher
\* had a handler on data in flight when end() was called, has ended and torn
\* down, finish() has returned and removed the error listener, and the two
\* foreign listeners are all that is left on the source.
C25_Witness ==
    /\ IsEventDispatcher
    /\ hist.foreign = <<"data", "error">>
    /\ hist.deferredEnd.made /\ promise[ED] = Outcome("fulfilled", "a")
    /\ ~source /\ cleanupCalls[ED] = 1
    /\ ~errArmed /\ hist.errRemovals = 1
    /\ Len(listeners) = 2

====
